---- MODULE Spec2Model ----
(***************************************************************************)
(* Model of the session reconciler of src/contexts/AuthContext.tsx         *)
(* (AuthProvider): handleSession, login, the onAuthStateChange callback    *)
(* with its debounce timer, and the route-guard effect, running against a  *)
(* profile store (app_user), an applicant table and the identity service.  *)
(***************************************************************************)
EXTENDS Integers, Sequences, FiniteSets, TLC

VARIABLES
    user,                        \* useState<AuthenticatedUser | null>
    isLoading,                   \* useState(true)
    isPasswordUpdateFlow,        \* useState(false)
    pathname,                    \* usePathname()
    app_user,                    \* rows of the profile table, in insertion order
    applicant,                   \* applicant table: identity -> applicantData or null
    passes,                      \* the handleSession invocations (one record each)
    faults,                      \* remote calls that failed so far
    isProcessingPasswordUpdate,  \* local flag of the onAuthStateChange effect
    timeoutId,                   \* the debounce timer of the effect
    pwTimers,                    \* pending setTimeout(..., 2000) of USER_UPDATED: ticks left
    notified,                    \* change notifications received so far
    sinceLast,                   \* ticks since the last notification (capped)
    burst,                       \* the notifications of the current burst
    window,                      \* less than 2000 ms since the last USER_UPDATED, no SIGNED_IN since
    logins,                      \* the login invocations (one record each)
    initial,                     \* the getSession().then(...) of the mount effect
    pushes,                      \* router.push calls, in order
    navigations,                 \* navigations made by the person at the browser
    profile,                     \* table 'profile': identity -> username last written
    pwUpdates,                   \* the updateUserPassword invocations (one record each)
    flowTimers,                  \* pending setTimeout(..., 3000) of updateUserPassword
    signUps,                     \* the signUp invocations (one record each)
    profileUpdates,              \* the updateUserProfile invocations (one record each)
    refreshes,                   \* the refreshUser invocations (one record each)
    subscribed                   \* the onAuthStateChange subscription is held

storeVars  == << app_user, applicant >>
notifyVars == << isProcessingPasswordUpdate, timeoutId, pwTimers, notified,
                 sinceLast, burst, window >>
uiVars     == << isLoading, isPasswordUpdateFlow, pathname, logins, initial,
                 pushes, navigations >>
uiVarsButInitial == << isLoading, isPasswordUpdateFlow, pathname, logins, pushes,
                        navigations >>
opVars == << profile, pwUpdates, flowTimers, signUps, profileUpdates, refreshes,
            subscribed >>
vars == << user, passes, faults, storeVars, notifyVars, uiVars, opVars >>

(***************************************************************************)
(* Bounds of the model.                                                    *)
(***************************************************************************)
MaxPasses == 2    \* handleSession invocations in a behaviour
MaxEvents == 4    \* change notifications in a behaviour
MaxLogins == 1    \* login invocations in a behaviour
MaxNavigations == 2  \* navigations by the person at the browser
MaxFaults == 1    \* remote calls that fail (error or exception) in a behaviour
MaxOps == 1       \* invocations of each of signUp, updateUserPassword,
                  \* updateUserProfile and refreshUser in a behaviour

(***************************************************************************)
(* JavaScript values.                                                      *)
(***************************************************************************)
null      == [null |-> TRUE]     \* null / absent object
NULL      == "null"              \* null in a scalar field
UNDEFINED == "undefined"         \* a field that was never assigned

Falsy(v) == v \in {"", NULL, UNDEFINED}
\* a || b
Or(a, b) == IF Falsy(a) THEN b ELSE a

\* Array.prototype.includes / String.prototype.includes on a sequence
Includes(s, sub) ==
    \E i \in 0..(Len(s) - Len(sub)) :
        \A j \in 1..Len(sub) : s[i + j] = sub[j]
\* String.prototype.startsWith
StartsWith(s, pre) ==
    /\ Len(pre) <= Len(s)
    /\ \A j \in 1..Len(pre) : s[j] = pre[j]

(***************************************************************************)
(* Identities of the identity service (session.user).                      *)
(***************************************************************************)
Identities == {"u1", "u2"}
Email(uid) == IF uid = "u1" THEN "u1@mail" ELSE "u2@mail"
\* supabaseUser.user_metadata?.username: u2 signed up without one
MetaUsername(uid) == IF uid = "u1" THEN "alice" ELSE UNDEFINED
SupabaseUser(uid) ==
    [id |-> uid, email |-> Email(uid), user_metadata |-> [username |-> MetaUsername(uid)]]

\* Session: the identity and whether expires_at < Date.now() / 1000
SessionOf(uid, e) == [user |-> SupabaseUser(uid), expires_at |-> e, token |-> 1]
\* the sessions callers hold: a live one of u1, an expired one of u2
Sessions == { SessionOf("u1", "future"), SessionOf("u2", "past") }
RefreshedSession(s) == [s EXCEPT !.expires_at = "future", !.token = 2]

(***************************************************************************)
(* The AuthenticatedUser values handleSession builds.                      *)
(***************************************************************************)
AuthenticatedUserOf(su, username, role, voterId, precinct, registrationStatus) ==
    [id |-> su.id, email |-> su.email, username |-> username, role |-> role,
     voterId |-> voterId, precinct |-> precinct,
     registrationStatus |-> registrationStatus]

existingAuthUser(su, existingUser) ==
    AuthenticatedUserOf(su, Or(existingUser.username, ""), existingUser.role,
                        UNDEFINED, UNDEFINED, NULL)

tempUser(su) ==
    AuthenticatedUserOf(su, Or(su.user_metadata.username, ""), "public",
                        UNDEFINED, UNDEFINED, NULL)

newUser(su, createdUser) ==
    AuthenticatedUserOf(su, Or(createdUser.username, ""), createdUser.role,
                        UNDEFINED, UNDEFINED, NULL)

\* applications.find(app => app.application_type === 'register')?.status || null
registrationStatusOf(applicantData) ==
    LET apps == applicantData.application
        regs == { i \in 1..Len(apps) : apps[i].application_type = "register" }
    IN
    IF regs = {} THEN NULL
    ELSE Or(apps[CHOOSE i \in regs : \A j \in regs : i <= j].status, NULL)

\* voterRecords[0]?.voter_id, voterRecords[0]?.precinct_number
voterIdOf(applicantData) ==
    LET recs == applicantData.applicant_voter_record
    IN  IF Len(recs) = 0 THEN UNDEFINED ELSE recs[1].voter_id
precinctOf(applicantData) ==
    LET recs == applicantData.applicant_voter_record
    IN  IF Len(recs) = 0 THEN UNDEFINED ELSE recs[1].precinct_number

\* the user assembled after the applicant query; resp is that query's outcome
authenticatedUser(su, appUser, resp) ==
    LET hasData == resp.kind = "ok" /\ resp.data # null
        username == Or(appUser.username, Or(su.user_metadata.username, ""))
    IN  AuthenticatedUserOf(su, username, appUser.role,
            IF hasData THEN voterIdOf(resp.data) ELSE NULL,
            IF hasData THEN precinctOf(resp.data) ELSE NULL,
            IF hasData THEN registrationStatusOf(resp.data) ELSE NULL)

(***************************************************************************)
(* The profile store and the applicant table, as the queries see them.     *)
(***************************************************************************)
Outcome(kind, error, data) == [kind |-> kind, error |-> error, data |-> data]
Ok(data)     == Outcome("ok", null, data)
Err(c, msg)  == Outcome("error", [code |-> c, message |-> msg], null)
Thrown       == Outcome("throw", null, null)

NoRowError   == Err("PGRST116", <<"no", "rows", "returned">>)
DuplicateKey == Err("23505", <<"duplicate", "key">>)
RlsViolation == Err("42501", <<"row-level", "security">>)
ServerError  == Err("500", <<"internal", "error">>)
FetchFaults  ==
    { Err("406", <<"error">>),
      Err("PGRST000", <<"406", "Not", "Acceptable">>),
      ServerError, Thrown }

RowsOf(uid) == { i \in 1..Len(app_user) : app_user[i].auth_id = uid }

\* .from('app_user').select('role, username').eq('auth_id', id).single()
SelectSingle(uid) ==
    IF Cardinality(RowsOf(uid)) = 1
    THEN LET row == app_user[CHOOSE i \in RowsOf(uid) : TRUE]
         IN  Ok([role |-> row.role, username |-> row.username])
    ELSE NoRowError

\* the row .insert({auth_id, email, username, role: 'public'}) sends
InsertedRow(su) ==
    [auth_id |-> su.id, email |-> su.email,
     username |-> Or(su.user_metadata.username, ""), role |-> "public"]

\* the unique constraint on auth_id
InsertViolatesUnique(row) == RowsOf(row.auth_id) # {}

\* .from('applicant').select(...).eq('auth_id', id).maybeSingle()
SelectApplicant(uid) == Ok(applicant[uid])

(***************************************************************************)
(* handleSession: one record per invocation; pc names the remote call the  *)
(* invocation is suspended on, resp is the reply once it has arrived.      *)
(***************************************************************************)
Passes == 1..MaxPasses

Pass0 ==
    [pc |-> "idle", session |-> null, supabaseUser |-> null, resp |-> null,
     appUser |-> null,
     result |-> null, calls |-> <<>>, writes |-> <<>>, toast |-> "none",
     caller |-> "none", arg |-> null, hadRow |-> FALSE]
\* calls: the remote calls issued, in order, each with its outcome;
\* writes: the values passed to setUser; arg: the session argument;
\* hadRow: whether app_user held a row of the identity at the call

\* the value of isPasswordUpdateFlow inside handleSession: the callback is
\* memoised on [toast] alone, so it keeps the state of the first render
handleSession_isPasswordUpdateFlow == FALSE

OutcomeTag(resp) == IF resp.kind = "error" THEN resp.error.code ELSE resp.kind

\* await <op>: the call is sent and the invocation suspends
Await(ps, op) ==
    [ps EXCEPT !.pc = op, !.resp = null,
               !.calls = Append(@, [op |-> op, out |-> "pending"])]

\* the reply is taken from the await
Settle(ps) ==
    [ps EXCEPT !.calls = [@ EXCEPT ![Len(@)].out = OutcomeTag(ps.resp)]]

\* setUser(value); return value
setUserAndReturn(ps, value, title) ==
    [ps EXCEPT !.pc = "done", !.resp = null, !.result = value,
               !.writes = Append(@, value), !.toast = title]

\* variant: the catch block lets the exception through to the caller
catchUnexpected_Rethrow(ps) == [ps EXCEPT !.pc = "raised", !.resp = null]

\* catch (unexpectedError) { toast(...); setUser(null); return null }
catchUnexpected(ps) == setUserAndReturn(ps, null, "Unexpected Error")

\* entry of handleSession, up to its first await
handleSessionBegin(session, caller) ==
    LET ps == [Pass0 EXCEPT !.session = session, !.caller = caller,
                            !.arg = session,
                            !.hadRow = session # null /\ RowsOf(session.user.id) # {},
                            !.supabaseUser =
                                IF session = null THEN null ELSE session.user]
    IN  IF session = null THEN setUserAndReturn(ps, null, "none")
        ELSE IF session.expires_at = "past" THEN Await(ps, "refreshSession")
        ELSE Await(ps, "fetch")

\* variant: refreshError is not looked at
afterRefreshSession_IgnoreError(ps) ==
    IF ps.resp.kind = "throw" THEN catchUnexpected(ps) ELSE Await(ps, "fetch")

afterRefreshSession(ps) ==
    CASE ps.resp.kind = "throw" -> catchUnexpected(ps)
      [] ps.resp.kind = "error" -> Await(ps, "signOut")
      [] OTHER ->
            Await([ps EXCEPT !.session =
                       IF ps.resp.data # null THEN ps.resp.data ELSE @],
                  "fetch")

afterSignOut(ps) ==
    IF ps.resp.kind = "throw" THEN catchUnexpected(ps)
    ELSE setUserAndReturn(ps, null, "none")

\* variant: the 'not acceptable' class is not told apart from other errors
afterFetch_NotAcceptableFatal(ps) ==
    CASE ps.resp.kind = "throw" -> catchUnexpected(ps)
      [] ps.resp.kind = "error" /\ ps.resp.error.code = "PGRST116" -> Await(ps, "insert")
      [] ps.resp.kind = "error" /\ ps.resp.error.code # "PGRST116" ->
            setUserAndReturn(ps, null, "Could not fetch user profile.")
      [] OTHER ->
            IF ps.resp.data # null
            THEN Await([ps EXCEPT !.appUser = ps.resp.data], "applicant")
            ELSE setUserAndReturn(ps, tempUser(ps.supabaseUser), "none")

\* variant: a temporary user is published before the applicant query
afterFetch_PublishEarly(ps) ==
    CASE ps.resp.kind = "throw" -> catchUnexpected(ps)
      [] ps.resp.kind = "error" /\ ps.resp.error.code = "PGRST116" -> Await(ps, "insert")
      [] ps.resp.kind = "error" /\ ps.resp.error.code # "PGRST116" ->
            IF ps.resp.error.code = "406"
               \/ Includes(ps.resp.error.message, <<"Not", "Acceptable">>)
            THEN setUserAndReturn(ps, tempUser(ps.supabaseUser), "none")
            ELSE setUserAndReturn(ps, null, "Could not fetch user profile.")
      [] OTHER ->
            IF ps.resp.data # null
            THEN Await([ps EXCEPT !.appUser = ps.resp.data,
                                  !.writes = Append(@, tempUser(ps.supabaseUser))],
                       "applicant")
            ELSE setUserAndReturn(ps, tempUser(ps.supabaseUser), "none")

afterFetch(ps) ==
    LET su == ps.supabaseUser
        fetchError == ps.resp.error
    IN
    CASE ps.resp.kind = "throw" -> catchUnexpected(ps)
      [] ps.resp.kind = "error" /\ fetchError.code = "PGRST116" ->
            Await(ps, "insert")
      [] ps.resp.kind = "error" /\ fetchError.code # "PGRST116" ->
            IF fetchError.code = "406"
               \/ Includes(fetchError.message, <<"Not", "Acceptable">>)
            THEN setUserAndReturn(ps, tempUser(su), "none")
            ELSE setUserAndReturn(ps, null,
                    IF handleSession_isPasswordUpdateFlow THEN "none"
                    ELSE "Could not fetch user profile.")
      [] OTHER ->
            IF ps.resp.data # null
            THEN Await([ps EXCEPT !.appUser = ps.resp.data], "applicant")
            ELSE setUserAndReturn(ps, tempUser(su), "none")

\* variant: 42501 is handled like any other creation error
afterInsert_RlsFatal(ps) ==
    CASE ps.resp.kind = "throw" -> catchUnexpected(ps)
      [] ps.resp.kind = "error" /\ ps.resp.error.code = "23505" -> Await(ps, "refetch")
      [] ps.resp.kind = "error" /\ ps.resp.error.code # "23505" ->
            setUserAndReturn(ps, null, "Could not create user profile. Please try again.")
      [] OTHER -> setUserAndReturn(ps, newUser(ps.supabaseUser, ps.resp.data), "none")

afterInsert(ps) ==
    LET su == ps.supabaseUser
        createError == ps.resp.error
    IN
    CASE ps.resp.kind = "throw" -> catchUnexpected(ps)
      [] ps.resp.kind = "error" /\ createError.code = "23505" ->
            Await(ps, "refetch")
      [] ps.resp.kind = "error" /\ createError.code = "42501" ->
            setUserAndReturn(ps, tempUser(su), "none")
      [] ps.resp.kind = "error" /\ createError.code \notin {"23505", "42501"} ->
            setUserAndReturn(ps, null,
                IF handleSession_isPasswordUpdateFlow THEN "none"
                ELSE "Could not create user profile. Please try again.")
      [] OTHER -> setUserAndReturn(ps, newUser(su, ps.resp.data), "none")

afterRefetch(ps) ==
    CASE ps.resp.kind = "throw" -> catchUnexpected(ps)
      [] ps.resp.kind = "error" -> setUserAndReturn(ps, null, "none")
      [] OTHER ->
            setUserAndReturn(ps, existingAuthUser(ps.supabaseUser, ps.resp.data),
                             "none")

\* variant: the applicant query is not wrapped in its own try/catch
afterApplicant_ThrowFatal(ps) ==
    IF ps.resp.kind = "throw" THEN catchUnexpected(ps)
    ELSE setUserAndReturn(ps, authenticatedUser(ps.supabaseUser, ps.appUser, ps.resp),
                          "none")

afterApplicant(ps) ==
    setUserAndReturn(ps, authenticatedUser(ps.supabaseUser, ps.appUser, ps.resp),
                     "none")

\* the continuation of handleSession after the await it is suspended on
handleSessionResume(ps) ==
    CASE ps.pc = "refreshSession" -> afterRefreshSession(ps)
      [] ps.pc = "signOut"        -> afterSignOut(ps)
      [] ps.pc = "fetch"          -> afterFetch(ps)
      [] ps.pc = "insert"         -> afterInsert(ps)
      [] ps.pc = "refetch"        -> afterRefetch(ps)
      [] ps.pc = "applicant"      -> afterApplicant(ps)

(***************************************************************************)
(* Actions of handleSession and of the services it calls.                  *)
(***************************************************************************)
IdlePasses == { p \in Passes : passes[p].pc = "idle" }
\* invocations take the records in order
FreePass == CHOOSE p \in IdlePasses : \A q \in IdlePasses : p <= q

\* handleSession(session) is called: runs to its first await
Invoke(session, caller) ==
    /\ IdlePasses # {}
    /\ LET ps == handleSessionBegin(session, caller)
       IN  /\ passes' = [passes EXCEPT ![FreePass] = ps]
           /\ user' = IF ps.pc = "done" THEN ps.result ELSE user

\* what a call that does not write the store answers when nothing fails
Nominal(ps) ==
    CASE ps.pc = "refreshSession" -> Ok(RefreshedSession(ps.session))
      [] ps.pc = "signOut"        -> Ok(null)
      [] ps.pc = "fetch"          -> SelectSingle(ps.supabaseUser.id)
      [] ps.pc = "refetch"        -> SelectSingle(ps.supabaseUser.id)
      [] ps.pc = "applicant"      -> SelectApplicant(ps.supabaseUser.id)

\* the ways a call can fail instead
Failures(ps) ==
    CASE ps.pc = "refreshSession" ->
            { Ok(null),
              Err("refresh_token_not_found", <<"Invalid", "Refresh", "Token">>),
              Thrown }
      [] ps.pc = "signOut"   -> { Thrown }
      [] ps.pc = "fetch"     -> FetchFaults
      [] ps.pc = "refetch"   -> { ServerError, Thrown }
      [] ps.pc = "applicant" -> { ServerError, Thrown }
      [] ps.pc = "insert"    -> { RlsViolation, ServerError, Thrown }

Suspended(p) == passes[p].pc \notin {"idle", "done"} /\ passes[p].resp = null

\* variant: an ordering token, a pass does not write once a pass started
\* after it has written
Continue_NewerWins(p, r) ==
    LET ps == handleSessionResume(Settle([passes[p] EXCEPT !.resp = r]))
    IN  /\ passes' = [passes EXCEPT ![p] = ps]
        /\ user' = IF ps.pc = "done"
                      /\ \A q \in Passes : q > p => passes[q].pc # "done"
                   THEN ps.result ELSE user

\* handleSession continues with reply r of the call it awaited
Continue(p, r) ==
    LET ps == handleSessionResume(Settle([passes[p] EXCEPT !.resp = r]))
    IN  /\ passes' = [passes EXCEPT ![p] = ps]
        /\ user' = IF ps.pc = "done" THEN ps.result ELSE user

\* the store executes a select on app_user; the reply is on its way
SelectReply(p) ==
    /\ Suspended(p)
    /\ passes[p].pc \in {"fetch", "refetch"}
    /\ passes' = [passes EXCEPT ![p].resp = Nominal(passes[p])]
    /\ UNCHANGED << opVars, user, faults, storeVars, notifyVars, uiVars >>

\* the store executes .insert(...).select('role, username').single()
InsertReply(p) ==
    /\ Suspended(p)
    /\ passes[p].pc = "insert"
    /\ LET row == InsertedRow(passes[p].supabaseUser)
           r == IF InsertViolatesUnique(row) THEN DuplicateKey
                ELSE Ok([role |-> row.role, username |-> row.username])
       IN  /\ app_user' = IF r.kind = "ok" THEN Append(app_user, row) ELSE app_user
           /\ passes' = [passes EXCEPT ![p].resp = r]
    /\ UNCHANGED << opVars, user, faults, applicant, notifyVars, uiVars >>

\* handleSession resumes with the reply of the store
Resume(p) ==
    /\ passes[p].resp # null
    /\ Continue(p, passes[p].resp)
    /\ UNCHANGED << opVars, faults, storeVars, notifyVars, uiVars >>

\* handleSession resumes with the reply of the identity service or of the
\* applicant query (neither depends on anything the passes change)
ServiceResume(p) ==
    /\ Suspended(p)
    /\ passes[p].pc \in {"refreshSession", "signOut", "applicant"}
    /\ Continue(p, Nominal(passes[p]))
    /\ UNCHANGED << opVars, faults, storeVars, notifyVars, uiVars >>

\* a remote call fails (an error value or an exception, nothing is written)
\* and handleSession resumes with the failure
FailResume(p) ==
    /\ Suspended(p)
    /\ faults < MaxFaults
    /\ \E r \in Failures(passes[p]) : Continue(p, r)
    /\ faults' = faults + 1
    /\ UNCHANGED << opVars, storeVars, notifyVars, uiVars >>

\* a caller of handleSession (lines 480, 501, 523, 586, 605) passes a session
CallHandleSession ==
    /\ \E s \in Sessions \cup {null} : Invoke(s, "caller")
    /\ UNCHANGED << opVars, faults, storeVars, notifyVars, uiVars >>

(***************************************************************************)
(* The onAuthStateChange callback, its debounce timer and the timers that  *)
(* reset isProcessingPasswordUpdate.  Time passes in ticks of half a       *)
(* debounce delay; a timer holds the ticks left until it is due and fires  *)
(* when none are left, before anything else happens at that instant.       *)
(***************************************************************************)
DebounceMs    == 100
UserUpdatedMs == 2000
TickMs        == DebounceMs \div 2
DebounceTicks == DebounceMs \div TickMs
WindowTicks   == UserUpdatedMs \div TickMs

AuthChangeEvents ==
    {"INITIAL_SESSION", "SIGNED_IN", "SIGNED_OUT", "TOKEN_REFRESHED", "USER_UPDATED"}
\* the events that reach the debounce at the end of the callback
Debounced(event) == event \notin {"TOKEN_REFRESHED", "USER_UPDATED", "SIGNED_OUT"}
\* the session a notification carries
SessionsOfEvent(event) ==
    CASE event = "SIGNED_OUT" -> {null}
      [] event \in {"TOKEN_REFRESHED", "USER_UPDATED"} -> { SessionOf("u1", "future") }
      [] OTHER -> { SessionOf("u1", "future"), SessionOf("u2", "future") }

\* the notifications of the current burst: how many, the event and session of
\* the last one, whether all were debounced events, and the sessions the
\* debounce timer has passed to handleSession since the burst began
Burst0 == [n |-> 0, event |-> "none", last |-> null, debounced |-> TRUE, starts |-> <<>>]

TimerDue ==
    \/ timeoutId # null /\ timeoutId.left = 0
    \/ 0 \in pwTimers

\* variant: a pending timer is kept, with the session it was set with
debounce_KeepPending(pending, session) ==
    IF pending # null THEN pending ELSE [left |-> DebounceTicks, session |-> session]

\* clearTimeout(timeoutId); timeoutId = setTimeout(() => handleSession(session), 100)
debounce(pending, session) == [left |-> DebounceTicks, session |-> session]

\* the callback of onAuthStateChange runs for (event, session)
Notify(event, session) ==
    /\ subscribed
    /\ notified < MaxEvents
    /\ ~TimerDue
    /\ notified' = notified + 1
    /\ sinceLast' = 0
    /\ burst' = IF burst.n = 0 \/ sinceLast >= DebounceTicks
                THEN [n |-> 1, event |-> event, last |-> session,
                      debounced |-> Debounced(event), starts |-> <<>>]
                ELSE [burst EXCEPT !.n = @ + 1, !.event = event, !.last = session,
                                   !.debounced = @ /\ Debounced(event)]
    /\ CASE event = "TOKEN_REFRESHED" ->
               UNCHANGED << user, isProcessingPasswordUpdate, timeoutId, pwTimers, window >>
         [] event = "USER_UPDATED" ->
               /\ isProcessingPasswordUpdate' = TRUE
               /\ pwTimers' = pwTimers \cup {WindowTicks}
               /\ window' = TRUE
               /\ UNCHANGED << user, timeoutId >>
         [] event = "SIGNED_OUT" ->
               /\ user' = IF isProcessingPasswordUpdate THEN user ELSE null
               /\ UNCHANGED << isProcessingPasswordUpdate, timeoutId, pwTimers, window >>
         [] OTHER ->
               /\ isProcessingPasswordUpdate' =
                     IF event = "SIGNED_IN" THEN FALSE ELSE isProcessingPasswordUpdate
               /\ window' = IF event = "SIGNED_IN" THEN FALSE ELSE window
               /\ timeoutId' = debounce(timeoutId, session)
               /\ UNCHANGED << user, pwTimers >>
    /\ UNCHANGED << opVars, passes, faults, storeVars, uiVars >>

\* INITIAL_SESSION is what the subscription is told first, and only then
AuthStateChange ==
    \E event \in AuthChangeEvents : \E session \in SessionsOfEvent(event) :
        /\ (event = "INITIAL_SESSION") = (notified = 0)
        /\ Notify(event, session)

\* the debounce timer fires: await handleSession(session)
DebounceFires ==
    /\ timeoutId # null
    /\ timeoutId.left = 0
    /\ Invoke(timeoutId.session, "debounce")
    /\ timeoutId' = null
    /\ burst' = [burst EXCEPT !.starts = Append(@, timeoutId.session)]
    /\ UNCHANGED << opVars, faults, storeVars, isProcessingPasswordUpdate, pwTimers,
                    notified, sinceLast, window, uiVars >>

\* a timer set by USER_UPDATED fires: isProcessingPasswordUpdate = false
PasswordTimerFires ==
    /\ 0 \in pwTimers
    /\ isProcessingPasswordUpdate' = FALSE
    /\ pwTimers' = pwTimers \ {0}
    /\ window' = IF pwTimers' = {} THEN FALSE ELSE window
    /\ UNCHANGED << opVars, user, passes, faults, storeVars, timeoutId, notified,
                    sinceLast, burst, uiVars >>

\* variant: the cleanup releases the subscription and leaves the timer
cleanupTimer_KeepTimer(pending) == pending

\* clearTimeout(timeoutId) of the cleanup
cleanupTimer(pending) == null

\* the cleanup of the effect: clearTimeout(timeoutId); subscription.unsubscribe()
Teardown ==
    /\ subscribed
    /\ subscribed' = FALSE
    /\ timeoutId' = cleanupTimer(timeoutId)
    /\ UNCHANGED << user, passes, faults, storeVars, isProcessingPasswordUpdate,
                    pwTimers, notified, sinceLast, burst, window, uiVars, profile,
                    pwUpdates, flowTimers, signUps, profileUpdates, refreshes >>

\* something is pending that is due within a debounce delay
ShortPending == timeoutId # null \/ (notified > 0 /\ sinceLast < DebounceTicks)

Elapse(d) ==
    /\ timeoutId' = IF timeoutId = null THEN null
                    ELSE [timeoutId EXCEPT !.left = @ - d]
    /\ pwTimers' = { t - d : t \in pwTimers }
    /\ sinceLast' = IF sinceLast + d > DebounceTicks THEN DebounceTicks
                    ELSE sinceLast + d
    /\ UNCHANGED << opVars, user, passes, faults, storeVars, isProcessingPasswordUpdate,
                    notified, burst, window, uiVars >>

\* one tick passes
Tick ==
    /\ ~TimerDue
    /\ ShortPending
    /\ Elapse(1)

\* nothing is due within a debounce delay: time passes until the next timer is due
Advance ==
    /\ ~TimerDue
    /\ ~ShortPending
    /\ pwTimers # {}
    /\ Elapse(CHOOSE t \in pwTimers : \A u \in pwTimers : t <= u)

(***************************************************************************)
(* Paths, as the strings of characters the guard inspects.                 *)
(***************************************************************************)
\* '/auth'
Auth ==
    << "/", "a", "u", "t", "h" >>
\* '/'
Root ==
    << "/" >>
\* '/landing'
Landing ==
    << "/", "l", "a", "n", "d", "i", "n", "g" >>
\* '/public/forgot-password'
PublicForgotPassword ==
    << "/", "p", "u", "b", "l", "i", "c", "/", "f", "o", "r", "g", "o", "t",
       "-", "p", "a", "s", "s", "w", "o", "r", "d" >>
\* '/public/reset-password'
PublicResetPassword ==
    << "/", "p", "u", "b", "l", "i", "c", "/", "r", "e", "s", "e", "t", "-",
       "p", "a", "s", "s", "w", "o", "r", "d" >>
\* '/public/home'
PublicHome ==
    << "/", "p", "u", "b", "l", "i", "c", "/", "h", "o", "m", "e" >>
\* '/public/track-status'
PublicTrackStatus ==
    << "/", "p", "u", "b", "l", "i", "c", "/", "t", "r", "a", "c", "k", "-",
       "s", "t", "a", "t", "u", "s" >>
\* '/public/application-submitted'
PublicApplicationSubmitted ==
    << "/", "p", "u", "b", "l", "i", "c", "/", "a", "p", "p", "l", "i", "c",
       "a", "t", "i", "o", "n", "-", "s", "u", "b", "m", "i", "t", "t", "e",
       "d" >>
\* '/public/profile'
PublicProfile ==
    << "/", "p", "u", "b", "l", "i", "c", "/", "p", "r", "o", "f", "i", "l",
       "e" >>
\* '/public/faq'
PublicFaq ==
    << "/", "p", "u", "b", "l", "i", "c", "/", "f", "a", "q" >>
\* '/public/schedule-biometrics'
PublicScheduleBiometrics ==
    << "/", "p", "u", "b", "l", "i", "c", "/", "s", "c", "h", "e", "d", "u",
       "l", "e", "-", "b", "i", "o", "m", "e", "t", "r", "i", "c", "s" >>
\* '/dashboard'
Dashboard ==
    << "/", "d", "a", "s", "h", "b", "o", "a", "r", "d" >>
\* '/dashboard/applications'
DashboardApplications ==
    << "/", "d", "a", "s", "h", "b", "o", "a", "r", "d", "/", "a", "p", "p",
       "l", "i", "c", "a", "t", "i", "o", "n", "s" >>
\* '/public/apply'
PublicApply ==
    << "/", "p", "u", "b", "l", "i", "c", "/", "a", "p", "p", "l", "y" >>
\* '/settings'
Settings ==
    << "/", "s", "e", "t", "t", "i", "n", "g", "s" >>
\* '/account/reset-password/confirm'
AccountResetPassword ==
    << "/", "a", "c", "c", "o", "u", "n", "t", "/", "r", "e", "s", "e", "t",
       "-", "p", "a", "s", "s", "w", "o", "r", "d", "/", "c", "o", "n", "f",
       "i", "r", "m" >>
\* '/public/'
PublicSlash ==
    << "/", "p", "u", "b", "l", "i", "c", "/" >>
\* '/reset-password'
ResetPasswordPart ==
    << "/", "r", "e", "s", "e", "t", "-", "p", "a", "s", "s", "w", "o", "r",
       "d" >>
\* '/forgot-password'
ForgotPasswordPart ==
    << "/", "f", "o", "r", "g", "o", "t", "-", "p", "a", "s", "s", "w", "o",
       "r", "d" >>

publicUserAuthenticatedPaths ==
    << PublicHome, PublicTrackStatus, PublicApplicationSubmitted, PublicProfile,
       PublicFaq, PublicScheduleBiometrics >>

publicUnauthenticatedPaths ==
    << Auth, Root, Landing, PublicForgotPassword, PublicResetPassword >>

\* paths the person at the browser goes to
NavPaths ==
    { Root, Auth, PublicHome, PublicApply, PublicResetPassword, Dashboard,
      DashboardApplications, AccountResetPassword, Settings }

\* no router.push
NoPush == << >>

isPublicPath(path) ==
    \/ Includes(publicUnauthenticatedPaths, << path >>)
    \/ Includes(path, ResetPasswordPart)
    \/ Includes(path, ForgotPasswordPart)

\* variant: the officer branch tests the public role
guardRedirect_RolesSwapped(u, loading, path) ==
    IF loading THEN NoPush
    ELSE IF u # null
         THEN IF u.role = "public" /\ StartsWith(path, PublicSlash) THEN Dashboard
              ELSE IF u.role = "officer" /\ StartsWith(path, Dashboard) THEN PublicHome
              ELSE NoPush
    ELSE IF ~Includes(publicUserAuthenticatedPaths, << path >>) /\ ~isPublicPath(path)
         THEN Auth
    ELSE NoPush

\* the route-guard effect: the path it pushes for (user, isLoading, pathname)
guardRedirect(u, loading, path) ==
    IF loading THEN NoPush
    ELSE IF u # null
         THEN IF u.role = "officer" /\ StartsWith(path, PublicSlash) THEN Dashboard
              ELSE IF u.role = "public" /\ StartsWith(path, Dashboard) THEN PublicHome
              ELSE NoPush
    ELSE IF ~Includes(publicUserAuthenticatedPaths, << path >>) /\ ~isPublicPath(path)
         THEN Auth
    ELSE NoPush

\* router.push(to) by an operation
Push(by, id, to) ==
    /\ pushes' = Append(pushes, [by |-> by, id |-> id, to |-> to])
    /\ pathname' = to

\* the effect runs after a render in which it has something to push
RouteGuard ==
    /\ guardRedirect(user, isLoading, pathname) # NoPush
    /\ Push("guard", 0, guardRedirect(user, isLoading, pathname))
    /\ UNCHANGED << opVars, user, passes, faults, storeVars, notifyVars, isLoading,
                    isPasswordUpdateFlow, logins, initial, navigations >>

\* the person at the browser opens another page
Navigate ==
    /\ navigations < MaxNavigations
    /\ navigations' = navigations + 1
    /\ \E path \in NavPaths \ {pathname} : pathname' = path
    /\ UNCHANGED << opVars, user, passes, faults, storeVars, notifyVars, isLoading,
                    isPasswordUpdateFlow, logins, initial, pushes >>

(***************************************************************************)
(* login.                                                                  *)
(***************************************************************************)
Logins == 1..Len(logins)

\* login(email, passwordAttempt) is called: setIsLoading(true), then the
\* call of signInWithPassword
LoginCall ==
    /\ Len(logins) < MaxLogins
    /\ \E uid \in Identities :
          logins' = Append(logins, [pc |-> "signInWithPassword", email |-> Email(uid),
                                    uid |-> uid, pass |-> 0, outcome |-> "pending"])
    /\ isLoading' = TRUE
    /\ UNCHANGED << opVars, user, passes, faults, storeVars, notifyVars, isPasswordUpdateFlow,
                    pathname, initial, pushes, navigations >>

\* variant: the error branch returns without setIsLoading(false)
LoginRejected_KeepsLoading(l) ==
    /\ l \in Logins
    /\ logins[l].pc = "signInWithPassword"
    /\ logins' = [logins EXCEPT ![l].pc = "done", ![l].outcome = "Login Failed"]
    /\ UNCHANGED << opVars, user, passes, faults, storeVars, notifyVars, isLoading,
                    isPasswordUpdateFlow, pathname, initial, pushes, navigations >>

\* signInWithPassword returned an error: toast, setIsLoading(false), return
LoginRejected(l) ==
    /\ l \in Logins
    /\ logins[l].pc = "signInWithPassword"
    /\ logins' = [logins EXCEPT ![l].pc = "done", ![l].outcome = "Login Failed"]
    /\ isLoading' = FALSE
    /\ UNCHANGED << opVars, user, passes, faults, storeVars, notifyVars, isPasswordUpdateFlow,
                    pathname, initial, pushes, navigations >>

\* signInWithPassword returned a session: await handleSession(data.session)
LoginAccepted(l) ==
    /\ l \in Logins
    /\ logins[l].pc = "signInWithPassword"
    /\ Invoke(SessionOf(logins[l].uid, "future"), "login")
    /\ logins' = [logins EXCEPT ![l].pc = "handleSession", ![l].pass = FreePass]
    /\ UNCHANGED << opVars, faults, storeVars, notifyVars, isLoading, isPasswordUpdateFlow,
                    pathname, initial, pushes, navigations >>

\* signInWithPassword returned neither an error nor a session
LoginNoSession(l) ==
    /\ l \in Logins
    /\ logins[l].pc = "signInWithPassword"
    /\ logins' = [logins EXCEPT ![l].pc = "done", ![l].outcome = "no session"]
    /\ isLoading' = FALSE
    /\ UNCHANGED << opVars, user, passes, faults, storeVars, notifyVars, isPasswordUpdateFlow,
                    pathname, initial, pushes, navigations >>

\* variant: the two landing routes are exchanged
loginRedirect_Swapped(userData) ==
    IF userData # null /\ userData.role = "officer" THEN PublicHome ELSE Dashboard

\* the path login pushes for the value handleSession returned
loginRedirect(userData) ==
    IF userData # null /\ userData.role = "officer" THEN Dashboard ELSE PublicHome

\* handleSession has returned: toast, router.push(redirectTo), setIsLoading(false)
LoginRedirects(l) ==
    /\ l \in Logins
    /\ logins[l].pc = "handleSession"
    /\ passes[logins[l].pass].pc = "done"
    /\ Push("login", l, loginRedirect(passes[logins[l].pass].result))
    /\ logins' = [logins EXCEPT ![l].pc = "done", ![l].outcome = "Login Successful"]
    /\ isLoading' = FALSE
    /\ UNCHANGED << opVars, user, passes, faults, storeVars, notifyVars, isPasswordUpdateFlow,
                    initial, navigations >>

(***************************************************************************)
(* The mount effect: supabase.auth.getSession().then(...).                 *)
(***************************************************************************)
Initial0 == [pc |-> "getSession", pass |-> 0]

\* error.message?.includes('refresh') || error.message?.includes('token')
isRefreshTokenMessage(message) ==
    Includes(message, << "refresh" >>) \/ Includes(message, << "token" >>)

GetSessionErrors ==
    { << "network", "request", "failed" >>, << "refresh", "token", "not", "found" >> }

\* getSession resolved with a session or with null:
\* handleSession(session).finally(() => setIsLoading(false))
MountSession ==
    /\ initial.pc = "getSession"
    /\ \E s \in Sessions \cup {null} : Invoke(s, "mount")
    /\ initial' = [pc |-> "handleSession", pass |-> FreePass]
    /\ UNCHANGED << opVars, faults, storeVars, notifyVars, isLoading, isPasswordUpdateFlow,
                    pathname, logins, pushes, navigations >>

\* the finally of the mount's handleSession
MountFinally ==
    /\ initial.pc = "handleSession"
    /\ passes[initial.pass].pc = "done"
    /\ initial' = [initial EXCEPT !.pc = "done"]
    /\ isLoading' = FALSE
    /\ UNCHANGED << opVars, user, passes, faults, storeVars, notifyVars, isPasswordUpdateFlow,
                    pathname, logins, pushes, navigations >>

\* getSession resolved with an error: handleRefreshTokenError() is called for
\* a message about the refresh token, and nothing else is done
MountError ==
    /\ initial.pc = "getSession"
    /\ \E message \in GetSessionErrors :
          initial' = [initial EXCEPT !.pc = IF isRefreshTokenMessage(message)
                                            THEN "signOut" ELSE "failed"]
    /\ UNCHANGED << opVars, user, passes, faults, storeVars, notifyVars, uiVarsButInitial >>

\* handleRefreshTokenError: signOut has returned, setUser(null), toast
\* (or signOut has thrown: the catch logs it)
MountSignedOut ==
    /\ initial.pc = "signOut"
    /\ \E thrown \in BOOLEAN :
          /\ user' = IF thrown THEN user ELSE null
          /\ initial' = [initial EXCEPT !.pc = IF thrown THEN "failed"
                                                ELSE "Session Expired"]
    /\ UNCHANGED << opVars, passes, faults, storeVars, notifyVars, uiVarsButInitial >>

(***************************************************************************)
(* updateUserPassword(oldPass, newPass).                                   *)
(***************************************************************************)
\* the state no operation of this section touches
routeVars == << isLoading, pathname, logins, initial, pushes, navigations >>

PwUpdates == 1..Len(pwUpdates)
\* oldPass: '' on the reset-link page, the old password on the profile page
OldPasswords == {"", "old"}
\* what an identity-service call answers: no error, an error, an exception
AuthOutcomes == {"ok", "error", "throw"}

\* if (!user) return false; setIsPasswordUpdateFlow(true); then the first await
updateUserPasswordBegin(u, oldPass) ==
    LET rec == [pc |-> "done", oldPass |-> oldPass, hadUser |-> u # null,
                calls |-> <<>>, result |-> FALSE, toast |-> "none",
                flow |-> "unset"]
    IN  IF u = null THEN rec
        ELSE IF oldPass # ""
             THEN [rec EXCEPT !.pc = "signInWithPassword", !.flow = "set",
                              !.calls = << [op |-> "signInWithPassword",
                                            out |-> "pending"] >>]
        ELSE [rec EXCEPT !.pc = "updateUser", !.flow = "set",
                         !.calls = << [op |-> "updateUser", out |-> "pending"] >>]

\* catch (error) { setIsPasswordUpdateFlow(false); toast; return false }
updateUserPasswordCatch(rec) ==
    [rec EXCEPT !.pc = "done", !.result = FALSE, !.toast = "Update Failed",
                !.flow = "cleared"]

\* variant: the outcome of the re-authentication is not looked at
afterReauthentication_IgnoreError(rec, out) ==
    LET r == [rec EXCEPT !.calls[Len(rec.calls)].out = out]
    IN  IF out = "throw" THEN updateUserPasswordCatch(r)
        ELSE [r EXCEPT !.pc = "updateUser",
                       !.calls = Append(@, [op |-> "updateUser", out |-> "pending"])]

\* after await signInWithPassword({ email: user.email, password: oldPass })
afterReauthentication(rec, out) ==
    LET r == [rec EXCEPT !.calls[Len(rec.calls)].out = out]
    IN  CASE out = "throw" -> updateUserPasswordCatch(r)
          [] out = "error" ->
                [r EXCEPT !.pc = "done", !.result = FALSE,
                          !.toast = "Incorrect Old Password"]
          [] OTHER ->
                [r EXCEPT !.pc = "updateUser",
                          !.calls = Append(@, [op |-> "updateUser", out |-> "pending"])]

\* after await updateUser({ password: newPass })
afterUpdateUser(rec, out) ==
    LET r == [rec EXCEPT !.calls[Len(rec.calls)].out = out]
    IN  CASE out = "throw" -> updateUserPasswordCatch(r)
          [] out = "error" ->
                [r EXCEPT !.pc = "done", !.result = FALSE, !.toast = "Update Failed"]
          [] OTHER ->
                [r EXCEPT !.pc = "done", !.result = TRUE, !.toast = "Password Updated",
                          !.flow = "timer"]

\* setIsPasswordUpdateFlow as the step from record old to record new does it
FlowAfter(old, new) ==
    CASE new.flow = "cleared" -> FALSE
      [] new.flow = "set" /\ old.flow = "unset" -> TRUE
      [] OTHER -> isPasswordUpdateFlow

\* updateUserPassword is called
UpdatePasswordCall ==
    /\ Len(pwUpdates) < MaxOps
    /\ \E oldPass \in OldPasswords :
          LET rec == updateUserPasswordBegin(user, oldPass)
          IN  /\ pwUpdates' = Append(pwUpdates, rec)
              /\ isPasswordUpdateFlow' = IF rec.flow = "set" THEN TRUE
                                         ELSE isPasswordUpdateFlow
    /\ UNCHANGED << user, passes, faults, storeVars, notifyVars, routeVars, profile,
                    flowTimers, signUps, profileUpdates, refreshes, subscribed >>

\* the re-authentication with the old password has been answered
UpdatePasswordReauth(k) ==
    /\ k \in PwUpdates
    /\ pwUpdates[k].pc = "signInWithPassword"
    /\ \E out \in AuthOutcomes :
          LET rec == afterReauthentication(pwUpdates[k], out)
          IN  /\ pwUpdates' = [pwUpdates EXCEPT ![k] = rec]
              /\ isPasswordUpdateFlow' = FlowAfter(pwUpdates[k], rec)
    /\ UNCHANGED << user, passes, faults, storeVars, notifyVars, routeVars, profile,
                    flowTimers, signUps, profileUpdates, refreshes, subscribed >>

\* updateUser has been answered; on success setTimeout(..., 3000) is set
UpdatePasswordChanged(k) ==
    /\ k \in PwUpdates
    /\ pwUpdates[k].pc = "updateUser"
    /\ \E out \in AuthOutcomes :
          LET rec == afterUpdateUser(pwUpdates[k], out)
          IN  /\ pwUpdates' = [pwUpdates EXCEPT ![k] = rec]
              /\ isPasswordUpdateFlow' = FlowAfter(pwUpdates[k], rec)
              /\ flowTimers' = IF rec.flow = "timer" THEN flowTimers + 1
                               ELSE flowTimers
    /\ UNCHANGED << user, passes, faults, storeVars, notifyVars, routeVars, profile,
                    signUps, profileUpdates, refreshes, subscribed >>

\* a timer set by updateUserPassword fires: setIsPasswordUpdateFlow(false)
FlowTimerFires ==
    /\ flowTimers > 0
    /\ flowTimers' = flowTimers - 1
    /\ isPasswordUpdateFlow' = FALSE
    /\ UNCHANGED << user, passes, faults, storeVars, notifyVars, routeVars, profile,
                    pwUpdates, signUps, profileUpdates, refreshes, subscribed >>

(***************************************************************************)
(* signUp(username, email, passwordAttempt).                               *)
(***************************************************************************)
SignUps == 1..Len(signUps)
\* the username typed into the form
FormUsernames == {"dora"}

\* .from('app_user').select('email').eq('email', email)
SelectByEmail(email) ==
    Ok([i \in 1..Cardinality({ j \in 1..Len(app_user) : app_user[j].email = email })
          |-> [email |-> email]])

\* the ways the duplicate check can fail instead
CheckFaults == { ServerError, Thrown }

\* variant: checkError is not looked at
afterDuplicateCheck_IgnoreError(rec, resp) ==
    LET r == [rec EXCEPT !.resp = null, !.check = OutcomeTag(resp)]
    IN  IF resp.kind = "ok" /\ Len(resp.data) > 0
        THEN [r EXCEPT !.pc = "done", !.toast = "Account Exists"]
        ELSE [r EXCEPT !.pc = "signUp",
                       !.calls = Append(@, [op |-> "auth.signUp", email |-> rec.email,
                                            data |-> [username |-> rec.username]])]

\* after the await of the duplicate check; signUp has no try/catch
afterDuplicateCheck(rec, resp) ==
    LET r == [rec EXCEPT !.resp = null, !.check = OutcomeTag(resp)]
    IN  CASE resp.kind = "throw" -> [r EXCEPT !.pc = "raised"]
          [] resp.kind = "error" -> [r EXCEPT !.pc = "done", !.toast = "Error"]
          [] resp.kind = "ok" /\ Len(resp.data) > 0 ->
                [r EXCEPT !.pc = "done", !.toast = "Account Exists"]
          [] OTHER ->
                [r EXCEPT !.pc = "signUp",
                          !.calls = Append(@, [op |-> "auth.signUp", email |-> rec.email,
                                               data |-> [username |-> rec.username]])]

\* after await supabase.auth.signUp(...)
afterAuthSignUp(rec, out) ==
    CASE out = "throw" -> [rec EXCEPT !.pc = "raised"]
      [] out = "error" -> [rec EXCEPT !.pc = "done", !.toast = "Sign Up Failed"]
      [] OTHER -> [rec EXCEPT !.pc = "done", !.toast = "Sign Up Successful"]

\* signUp is called: the duplicate check is sent
SignUpCall ==
    /\ Len(signUps) < MaxOps
    /\ \E uid \in Identities, username \in FormUsernames :
          signUps' = Append(signUps,
              [pc |-> "check", username |-> username, email |-> Email(uid),
               resp |-> null, seen |-> 0, check |-> "pending", toast |-> "none",
               calls |-> << [op |-> "select", email |-> Email(uid), data |-> null] >>])
    /\ UNCHANGED << user, passes, faults, storeVars, notifyVars, uiVars, profile,
                    pwUpdates, flowTimers, profileUpdates, refreshes, subscribed >>

\* the store executes the duplicate check, or the check fails
SignUpCheckReply(k) ==
    /\ k \in SignUps
    /\ signUps[k].pc = "check"
    /\ signUps[k].resp = null
    /\ LET found == SelectByEmail(signUps[k].email)
       IN  \/ signUps' = [signUps EXCEPT ![k].resp = found,
                                         ![k].seen = Len(found.data)]
           \/ \E fault \in CheckFaults :
                 signUps' = [signUps EXCEPT ![k].resp = fault,
                                           ![k].seen = Len(found.data)]
    /\ UNCHANGED << user, passes, faults, storeVars, notifyVars, uiVars, profile,
                    pwUpdates, flowTimers, profileUpdates, refreshes, subscribed >>

\* signUp resumes with the result of the duplicate check
SignUpChecked(k) ==
    /\ k \in SignUps
    /\ signUps[k].pc = "check"
    /\ signUps[k].resp # null
    /\ signUps' = [signUps EXCEPT ![k] = afterDuplicateCheck(@, @.resp)]
    /\ UNCHANGED << user, passes, faults, storeVars, notifyVars, uiVars, profile,
                    pwUpdates, flowTimers, profileUpdates, refreshes, subscribed >>

\* the identity service has answered signUp
SignUpAnswered(k) ==
    /\ k \in SignUps
    /\ signUps[k].pc = "signUp"
    /\ \E out \in AuthOutcomes :
          signUps' = [signUps EXCEPT ![k] = afterAuthSignUp(@, out)]
    /\ UNCHANGED << user, passes, faults, storeVars, notifyVars, uiVars, profile,
                    pwUpdates, flowTimers, profileUpdates, refreshes, subscribed >>

(***************************************************************************)
(* updateUserProfile(updates).                                             *)
(***************************************************************************)
ProfileUpdates == 1..Len(profileUpdates)
\* updates.username
NewUsernames == {"erin"}

\* if (!user) return false; then the update of table 'profile' is sent
updateUserProfileBegin(u, username) ==
    LET rec == [pc |-> "done", username |-> username, hadUser |-> u # null,
                uid |-> IF u = null THEN NULL ELSE u.id,
                out |-> "none", matched |-> 0, result |-> FALSE, toast |-> "none",
                pass |-> 0, arg |-> null]
    IN  IF u = null THEN rec ELSE [rec EXCEPT !.pc = "update", !.out = "pending"]

\* .from('profile').update({ username }).eq('auth_id', user.id): the rows of
\* table 'profile' with the auth_id take the username; no row is no error
UpdateProfileRows(uid, username) ==
    [profile EXCEPT ![uid] = IF @ = NULL THEN NULL ELSE username]

\* after the await of the update; updateUserProfile has no try/catch
afterProfileUpdate(rec, out) ==
    LET r == [rec EXCEPT !.out = out]
    IN  CASE out = "throw" -> [r EXCEPT !.pc = "raised"]
          [] out = "error" -> [r EXCEPT !.pc = "done", !.result = FALSE, !.toast = "Error"]
          [] OTHER -> [r EXCEPT !.pc = "getSession"]

\* what supabase.auth.getSession() resolves with for the identity: its
\* session, or no session
SessionsOfIdentity(uid) == { s \in Sessions : s.user.id = uid } \cup {null}

\* updateUserProfile is called
UpdateProfileCall ==
    /\ Len(profileUpdates) < MaxOps
    /\ \E username \in NewUsernames :
          profileUpdates' = Append(profileUpdates, updateUserProfileBegin(user, username))
    /\ UNCHANGED << user, passes, faults, storeVars, notifyVars, uiVars, profile,
                    pwUpdates, flowTimers, signUps, refreshes, subscribed >>

\* the store executes the update and updateUserProfile resumes, or the
\* update fails (an error value or an exception, nothing is written)
UpdateProfileReply(k) ==
    /\ k \in ProfileUpdates
    /\ profileUpdates[k].pc = "update"
    /\ \E out \in AuthOutcomes :
          /\ profileUpdates' = [profileUpdates EXCEPT ![k] =
                [afterProfileUpdate(@, out) EXCEPT
                    !.matched = IF out = "ok" /\ profile[profileUpdates[k].uid] # NULL
                                THEN 1 ELSE 0]]
          /\ profile' = IF out = "ok"
                        THEN UpdateProfileRows(profileUpdates[k].uid,
                                               profileUpdates[k].username)
                        ELSE profile
    /\ UNCHANGED << user, passes, faults, storeVars, notifyVars, uiVars,
                    pwUpdates, flowTimers, signUps, refreshes, subscribed >>

\* getSession has resolved: handleSession(session) is called and not
\* awaited, toast 'Success', return true
UpdateProfileSession(k) ==
    /\ k \in ProfileUpdates
    /\ profileUpdates[k].pc = "getSession"
    /\ \E s \in SessionsOfIdentity(profileUpdates[k].uid) :
          /\ Invoke(s, "updateUserProfile")
          /\ profileUpdates' = [profileUpdates EXCEPT
                ![k].pc = "done", ![k].result = TRUE, ![k].toast = "Success",
                ![k].pass = FreePass, ![k].arg = s]
    /\ UNCHANGED << faults, storeVars, notifyVars, uiVars, profile,
                    pwUpdates, flowTimers, signUps, refreshes, subscribed >>

\* getSession has thrown: the exception leaves updateUserProfile
UpdateProfileSessionThrows(k) ==
    /\ k \in ProfileUpdates
    /\ profileUpdates[k].pc = "getSession"
    /\ profileUpdates' = [profileUpdates EXCEPT ![k].pc = "raised"]
    /\ UNCHANGED << user, passes, faults, storeVars, notifyVars, uiVars, profile,
                    pwUpdates, flowTimers, signUps, refreshes, subscribed >>

(***************************************************************************)
(* refreshUser().                                                          *)
(***************************************************************************)
Refreshes == 1..Len(refreshes)

\* entry of refreshUser, up to await supabase.auth.getSession()
refreshUserBegin(u) ==
    [pc |-> "getSession", before |-> u, session |-> null,
     getSession |-> "pending", refreshSession |-> "none", signOut |-> "none",
     pass |-> 0, arg |-> null, caught |-> FALSE, writes |-> 0]
\* before: the published user at the call; session: the local the
\* destructuring of getSession's result binds; pass, arg: the invocation of
\* handleSession and its argument; writes: the setUser(null) of refreshUser

\* catch (error) { setUser(null) }
refreshUserCatch(rec) ==
    [rec EXCEPT !.pc = "done", !.caught = TRUE, !.writes = @ + 1]

\* after await getSession(): { data: { session }, error }; the session of an
\* error result is null
afterGetSession(rec, out, s) ==
    LET r == [rec EXCEPT !.getSession = out]
    IN  CASE out = "throw" -> refreshUserCatch(r)
          [] out = "error" -> [r EXCEPT !.pc = "refreshSession", !.session = null,
                                        !.refreshSession = "pending"]
          [] OTHER -> [r EXCEPT !.pc = "handleSession", !.session = s]

\* after await refreshSession(): only refreshError is read
afterExplicitRefresh(rec, out) ==
    LET r == [rec EXCEPT !.refreshSession = out]
    IN  CASE out = "throw" -> refreshUserCatch(r)
          [] out = "error" -> [r EXCEPT !.pc = "signOut", !.signOut = "pending"]
          [] OTHER -> [r EXCEPT !.pc = "handleSession"]

\* after await signOut(): setUser(null); return
afterRefreshSignOut(rec, out) ==
    LET r == [rec EXCEPT !.signOut = out]
    IN  IF out = "throw" THEN refreshUserCatch(r)
        ELSE [r EXCEPT !.pc = "done", !.writes = @ + 1]

\* the step of refreshUser from record rec to record r: handleSession(session)
\* is called when r has reached it, setUser(null) when r has counted one
RefreshStep(k, r) ==
    /\ IF r.pc = "handleSession"
       THEN /\ Invoke(r.session, "refreshUser")
            /\ refreshes' = [refreshes EXCEPT ![k] =
                                [r EXCEPT !.pass = FreePass, !.arg = r.session]]
       ELSE /\ refreshes' = [refreshes EXCEPT ![k] = r]
            /\ passes' = passes
            /\ user' = IF r.writes > refreshes[k].writes THEN null ELSE user

\* refreshUser is called
RefreshUserCall ==
    /\ Len(refreshes) < MaxOps
    /\ refreshes' = Append(refreshes, refreshUserBegin(user))
    /\ UNCHANGED << user, passes, faults, storeVars, notifyVars, uiVars, profile,
                    pwUpdates, flowTimers, signUps, profileUpdates, subscribed >>

\* getSession has been answered
RefreshUserSession(k) ==
    /\ k \in Refreshes
    /\ refreshes[k].pc = "getSession"
    /\ \/ \E s \in Sessions \cup {null} :
             RefreshStep(k, afterGetSession(refreshes[k], "ok", s))
       \/ \E out \in {"error", "throw"} :
             RefreshStep(k, afterGetSession(refreshes[k], out, null))
    /\ UNCHANGED << faults, storeVars, notifyVars, uiVars, profile,
                    pwUpdates, flowTimers, signUps, profileUpdates, subscribed >>

\* the explicit refreshSession has been answered
RefreshUserRefreshed(k) ==
    /\ k \in Refreshes
    /\ refreshes[k].pc = "refreshSession"
    /\ \E out \in AuthOutcomes :
          RefreshStep(k, afterExplicitRefresh(refreshes[k], out))
    /\ UNCHANGED << faults, storeVars, notifyVars, uiVars, profile,
                    pwUpdates, flowTimers, signUps, profileUpdates, subscribed >>

\* signOut has been answered
RefreshUserSignedOut(k) ==
    /\ k \in Refreshes
    /\ refreshes[k].pc = "signOut"
    /\ \E out \in {"ok", "throw"} :
          RefreshStep(k, afterRefreshSignOut(refreshes[k], out))
    /\ UNCHANGED << faults, storeVars, notifyVars, uiVars, profile,
                    pwUpdates, flowTimers, signUps, profileUpdates, subscribed >>

\* the awaited handleSession has returned
RefreshUserReturns(k) ==
    /\ k \in Refreshes
    /\ refreshes[k].pc = "handleSession"
    /\ passes[refreshes[k].pass].pc = "done"
    /\ refreshes' = [refreshes EXCEPT ![k].pc = "done"]
    /\ UNCHANGED << user, passes, faults, storeVars, notifyVars, uiVars, profile,
                    pwUpdates, flowTimers, signUps, profileUpdates, subscribed >>

(***************************************************************************)
(* Initial state: the provider has rendered once; the tables hold what the *)
(* backend holds.                                                          *)
(***************************************************************************)
\* a row of app_user the backend may hold for an identity before the first
\* reconciliation: none, or one an administrator made an officer and gave no
\* username (a row made from the sign-up metadata is what a pass inserts)
InitRowChoices(uid) ==
    { <<>>,
      << [auth_id |-> uid, email |-> Email(uid), username |-> "",
          role |-> "officer"] >> }

ApplicantChoices ==
    { null,
      [application |-> << [application_type |-> "register", status |-> "pending"] >>,
       applicant_voter_record |-> <<>>],
      [application |-> << [application_type |-> "transfer", status |-> "approved"] >>,
       applicant_voter_record |-> << [voter_id |-> "V1", precinct_number |-> "P1"] >>] }


InitState(rows, profiles) ==
    /\ user = null
    /\ isLoading = TRUE
    /\ isPasswordUpdateFlow = FALSE
    /\ pathname = Auth
    /\ app_user \in rows
    /\ applicant \in { [u \in Identities |-> IF u = "u1" THEN a ELSE null] :
                          a \in ApplicantChoices }
    /\ passes = [p \in Passes |-> Pass0]
    /\ faults = 0
    /\ isProcessingPasswordUpdate = FALSE
    /\ timeoutId = null
    /\ pwTimers = {}
    /\ notified = 0
    /\ sinceLast = 0
    /\ burst = Burst0
    /\ window = FALSE
    /\ logins = <<>>
    /\ initial = Initial0
    /\ pushes = <<>>
    /\ navigations = 0
    /\ profile \in profiles
    /\ pwUpdates = <<>>
    /\ flowTimers = 0
    /\ signUps = <<>>
    /\ profileUpdates = <<>>
    /\ refreshes = <<>>
    /\ subscribed = TRUE

\* table 'profile' holds no row
InitOf(rows) == InitState(rows, { [u \in Identities |-> NULL] })

Init == InitOf(InitRowChoices("u1"))

(***************************************************************************)
(* The reconciliation passes alone: any callers, any sessions, overlapping.*)
(***************************************************************************)
NextReconcile ==
    \/ CallHandleSession
    \/ \E p \in Passes : SelectReply(p)
    \/ \E p \in Passes : InsertReply(p)
    \/ \E p \in Passes : Resume(p)
    \/ \E p \in Passes : ServiceResume(p)
    \/ \E p \in Passes : FailResume(p)

SpecReconcile == Init /\ [][NextReconcile]_vars

(***************************************************************************)
(* Properties of the reconciliation passes.                                *)
(***************************************************************************)
Started == { p \in Passes : passes[p].pc # "idle" }
Done    == { p \in Passes : passes[p].pc = "done" }
CallsOf(p, op) == { i \in 1..Len(passes[p].calls) : passes[p].calls[i].op = op }
OutOf(p, op) == { passes[p].calls[i].out : i \in CallsOf(p, op) }
StoreOps == {"fetch", "insert", "refetch", "applicant"}
\* no call of the pass failed: every outcome is what the store holds
Unfailed(p) ==
    \A i \in 1..Len(passes[p].calls) :
        passes[p].calls[i].out \in {"ok", "PGRST116", "23505"}
Nullish(v) == v \in {NULL, UNDEFINED}
SameFields(a, b) ==
    /\ a # null /\ b # null
    /\ a.id = b.id /\ a.email = b.email /\ a.username = b.username /\ a.role = b.role
    /\ \A f \in {"voterId", "precinct", "registrationStatus"} :
          a[f] = b[f] \/ (Nullish(a[f]) /\ Nullish(b[f]))

\* C1: the passes called for an identity while it has no profile row, none of
\* whose calls fails, leave exactly one row for the identity and all return
\* the same AuthenticatedUser fields (null and undefined taken as equal).
C1_ConvergeSameUser ==
    \A p \in Done, q \in Done :
        ( /\ passes[p].arg # null /\ passes[q].arg # null
          /\ passes[p].supabaseUser.id = passes[q].supabaseUser.id
          /\ ~passes[p].hadRow /\ ~passes[q].hadRow
          /\ Unfailed(p) /\ Unfailed(q) )
        => /\ Cardinality(RowsOf(passes[p].supabaseUser.id)) = 1
           /\ SameFields(passes[p].result, passes[q].result)

\* C4: a pass called with an expired session issues refreshSession first and
\* once; if the refresh returns an error the pass queries no table, writes
\* only null to the published user and returns null.
C4_ExpiredRefreshOnce ==
    \A p \in Started :
        (passes[p].arg # null /\ passes[p].arg.expires_at = "past")
        => /\ CallsOf(p, "refreshSession") = {1}
           /\ (passes[p].calls[1].out = "refresh_token_not_found")
              => /\ \A op \in StoreOps : CallsOf(p, op) = {}
                 /\ \A i \in 1..Len(passes[p].writes) : passes[p].writes[i] = null
                 /\ p \in Done => /\ passes[p].result = null
                                  /\ passes[p].writes = << null >>

C4_Witness ==
    \E p \in Done :
        /\ passes[p].arg # null /\ passes[p].arg.expires_at = "past"
        /\ passes[p].calls[1].out = "refresh_token_not_found"
        /\ passes[p].calls[Len(passes[p].calls)] = [op |-> "signOut", out |-> "ok"]
        /\ user = null

\* C5: a pass whose fetch found no row and whose insert was refused with 42501
\* returns a user with role 'public' and the metadata username, and every row
\* of the identity in the store was inserted by another pass.
C5_PermissionDeniedTempUser ==
    \A p \in Done :
        ("PGRST116" \in OutOf(p, "fetch") /\ "42501" \in OutOf(p, "insert"))
        => /\ passes[p].result # null
           /\ passes[p].result.role = "public"
           /\ passes[p].result.username =
                 Or(passes[p].supabaseUser.user_metadata.username, "")
           /\ passes[p].result.id = passes[p].supabaseUser.id
           /\ passes[p].writes = << passes[p].result >>
           /\ Cardinality(CallsOf(p, "insert")) = 1
           /\ RowsOf(passes[p].supabaseUser.id) # {}
              => \E q \in Passes \ {p} :
                    /\ passes[q].supabaseUser = passes[p].supabaseUser
                    /\ ( "ok" \in OutOf(q, "insert")
                         \/ (passes[q].pc = "insert" /\ passes[q].resp # null) )

C5_Witness ==
    \E p \in Done :
        /\ "42501" \in OutOf(p, "insert")
        /\ user = passes[p].result
        /\ RowsOf(passes[p].supabaseUser.id) = {}

\* the applicant query of the pass found no record, or failed
NoApplicantData(p) ==
    \/ OutOf(p, "applicant") \cap {"500", "throw"} # {}
    \/ applicant[passes[p].supabaseUser.id] = null

\* C9 as stated: a pass whose fetch returned the profile row returns a user
\* whatever the applicant query does; with no applicant record, an error or an
\* exception the user has registrationStatus null and the row's role and
\* username.
C9_ProfileUsername ==
    \A p \in Done :
        ("ok" \in OutOf(p, "fetch"))
        => /\ passes[p].result # null
           /\ passes[p].writes = << passes[p].result >>
           /\ NoApplicantData(p)
              => /\ passes[p].result.registrationStatus = NULL
                 /\ passes[p].result.role = passes[p].appUser.role
                 /\ passes[p].result.username = passes[p].appUser.username

\* C9: a pass whose fetch returned the profile row returns a user whatever the
\* applicant query does; with no applicant record, an error or an exception
\* the user has registrationStatus null, the row's role, and the row's
\* username when it is not empty, the metadata username (or '') when it is.
C9_ApplicantNeverFatal ==
    \A p \in Done :
        ("ok" \in OutOf(p, "fetch"))
        => /\ passes[p].result # null
           /\ passes[p].writes = << passes[p].result >>
           /\ NoApplicantData(p)
              => /\ passes[p].result.registrationStatus = NULL
                 /\ passes[p].result.role = passes[p].appUser.role
                 /\ passes[p].result.username =
                       IF passes[p].appUser.username # ""
                       THEN passes[p].appUser.username
                       ELSE IF passes[p].supabaseUser.user_metadata.username = UNDEFINED
                            THEN ""
                            ELSE passes[p].supabaseUser.user_metadata.username

C9_Witness ==
    \E p \in Done :
        /\ "ok" \in OutOf(p, "fetch")
        /\ "throw" \in OutOf(p, "applicant")
        /\ user = passes[p].result
        /\ user.role = "officer"
        /\ passes[p].appUser.username = ""
        /\ user.username = "alice"

\* a failure handleSession does not recover from locally
Unrecovered(call) ==
    \/ call.op = "refreshSession" /\ call.out \in {"refresh_token_not_found", "throw"}
    \/ call.op = "signOut" /\ call.out = "throw"
    \/ call.op \in {"fetch", "insert"} /\ call.out \in {"500", "throw"}
    \/ call.op = "refetch" /\ call.out \in {"PGRST116", "500", "throw"}

\* C10: no pass raises to its caller: a pass is awaiting the reply of a remote
\* call or has returned the one value it wrote; a pass that met a failure it
\* does not recover from wrote null and returned null.
C10_NeverRaises ==
    \A p \in Started :
        /\ passes[p].pc # "raised"
        /\ p \notin Done
           => passes[p].pc \in {"refreshSession", "signOut", "fetch", "insert",
                                "refetch", "applicant"}
        /\ p \in Done
           => /\ passes[p].writes = << passes[p].result >>
              /\ (\E i \in 1..Len(passes[p].calls) : Unrecovered(passes[p].calls[i]))
                 => passes[p].result = null

C10_Witness ==
    \E p \in Done :
        /\ passes[p].calls = << [op |-> "fetch", out |-> "PGRST116"],
                                [op |-> "insert", out |-> "throw"] >>
        /\ passes[p].toast = "Unexpected Error"
        /\ passes[p].result = null
        /\ user = null

(***************************************************************************)
(* The change notifications, the timers and the passes they start.         *)
(***************************************************************************)
NextNotify ==
    \/ AuthStateChange
    \/ DebounceFires
    \/ PasswordTimerFires
    \/ Tick
    \/ Advance
    \/ \E p \in Passes : SelectReply(p)
    \/ \E p \in Passes : InsertReply(p)
    \/ \E p \in Passes : Resume(p)
    \/ \E p \in Passes : ServiceResume(p)

\* u1 is an officer with no applicant record, u2 has no profile row yet
InitNotify ==
    /\ Init
    /\ Len(app_user) = 1 /\ app_user[1].role = "officer"
    /\ applicant["u1"] = null

SpecNotify == InitNotify /\ [][NextNotify]_vars

(***************************************************************************)
(* login, after the mount, with the passes they start and the route guard. *)
(***************************************************************************)
NextLogin ==
    \/ MountSession
    \/ MountFinally
    \/ MountError
    \/ MountSignedOut
    \/ LoginCall
    \/ \E l \in 1..MaxLogins : LoginRejected(l)
    \/ \E l \in 1..MaxLogins : LoginAccepted(l)
    \/ \E l \in 1..MaxLogins : LoginNoSession(l)
    \/ \E l \in 1..MaxLogins : LoginRedirects(l)
    \/ RouteGuard
    \/ \E p \in Passes : SelectReply(p)
    \/ \E p \in Passes : InsertReply(p)
    \/ \E p \in Passes : Resume(p)
    \/ \E p \in Passes : ServiceResume(p)
    \/ \E p \in Passes : FailResume(p)

SpecLogin == InitNotify /\ [][NextLogin]_vars

(***************************************************************************)
(* The route guard: the mount, the pass it starts, and the person at the   *)
(* browser going from page to page.                                        *)
(***************************************************************************)
NextGuard ==
    \/ MountSession
    \/ MountFinally
    \/ MountError
    \/ MountSignedOut
    \/ RouteGuard
    \/ Navigate
    \/ \E p \in Passes : SelectReply(p)
    \/ \E p \in Passes : InsertReply(p)
    \/ \E p \in Passes : Resume(p)
    \/ \E p \in Passes : ServiceResume(p)
    \/ \E p \in Passes : FailResume(p)

\* u1's row makes it an officer, or carries a role the client does not know
\* (role is read as appUser.role as UserRole, a cast that checks nothing)
InitGuard ==
    /\ InitOf({ << [auth_id |-> "u1", email |-> Email("u1"), username |-> "",
                    role |-> r] >> : r \in {"officer", "admin"} })
    /\ applicant["u1"] = null

SpecGuard == InitGuard /\ [][NextGuard]_vars

(***************************************************************************)
(* Properties of the change notifications.                                 *)
(***************************************************************************)
\* the step is the callback running for a SIGNED_OUT notification
SignedOutStep == notified' = notified + 1 /\ burst'.event = "SIGNED_OUT"

\* C2: a SIGNED_OUT notification leaves the published user as it is while a
\* password-update window is open (isPasswordUpdateFlow is set, or less than
\* 2000 ms have passed since the last USER_UPDATED and no SIGNED_IN has
\* arrived since), and sets it to null otherwise.
C2_SignedOutInWindow ==
    [][ SignedOutStep
        => IF window \/ isPasswordUpdateFlow THEN user' = user ELSE user' = null ]_vars

\* a burst is over: a debounce delay has passed since its last notification
\* and no debounce timer is pending
BurstClosed == burst.n > 0 /\ sinceLast >= DebounceTicks /\ timeoutId = null

\* C3 as stated: every burst, whatever its events, starts exactly one pass,
\* with the session of its last notification.
C3_OnePassPerBurst ==
    BurstClosed => burst.starts = << burst.last >>

\* C3: a burst none of whose notifications is TOKEN_REFRESHED, USER_UPDATED
\* or SIGNED_OUT starts exactly one pass, with the session of its last
\* notification, and starts none before the burst is over.
C3_OnePassPerDebouncedBurst ==
    burst.debounced
    => /\ BurstClosed => burst.starts = << burst.last >>
       /\ ~BurstClosed => burst.starts = << >>

C3_Witness ==
    /\ BurstClosed
    /\ burst.debounced
    /\ burst.n >= 3
    /\ burst.starts = << burst.last >>
    /\ \E p \in Started : passes[p].caller = "debounce" /\ passes[p].arg = burst.last

(***************************************************************************)
(* Properties of login.                                                    *)
(***************************************************************************)
PushesOf(l) == { i \in 1..Len(pushes) : pushes[i].by = "login" /\ pushes[i].id = l }

\* C6: a login whose signInWithPassword returned a session pushes exactly one
\* route, after its pass has returned: '/dashboard' when the pass returned a
\* user with role 'officer', '/public/home' otherwise (null included).
C6_LoginNavigatesOnce ==
    \A l \in Logins :
        /\ logins[l].pc = "handleSession" => PushesOf(l) = {}
        /\ logins[l].outcome = "Login Successful"
           => /\ passes[logins[l].pass].pc = "done"
              /\ Cardinality(PushesOf(l)) = 1
              /\ \A i \in PushesOf(l) :
                    LET userData == passes[logins[l].pass].result
                    IN  IF userData = null THEN pushes[i].to = PublicHome
                        ELSE IF userData.role = "officer" THEN pushes[i].to = Dashboard
                        ELSE pushes[i].to = PublicHome

C6_Witness ==
    \E l \in Logins :
        /\ logins[l].outcome = "Login Successful"
        /\ passes[logins[l].pass].result = null
        /\ \E i \in PushesOf(l) : pushes[i].to = PublicHome

\* the step is login returning after signInWithPassword returned an error
LoginRejectedStep(l) ==
    /\ l \in Logins
    /\ logins[l].pc = "signInWithPassword"
    /\ logins'[l].outcome = "Login Failed"

\* C7 as stated: after a rejected login the published user is null.
C7_RejectedLoginUserNull ==
    [][ \A l \in 1..MaxLogins : LoginRejectedStep(l) => user' = null ]_vars

\* C7: a rejected login leaves the published user as it was, pushes no route,
\* starts no pass and sets isLoading to false.
C7_RejectedLoginLeavesUser ==
    [][ \A l \in 1..MaxLogins :
           LoginRejectedStep(l)
           => /\ user' = user
              /\ passes' = passes
              /\ pushes' = pushes
              /\ PushesOf(l) = {}
              /\ logins'[l].pass = 0
              /\ isLoading' = FALSE ]_vars

C7_Witness ==
    \E l \in Logins :
        /\ logins[l].outcome = "Login Failed"
        /\ user # null
        /\ ~isLoading
        /\ PushesOf(l) = {}

(***************************************************************************)
(* Properties of the route guard.                                          *)
(***************************************************************************)
\* the allow-list: an exact match in one of the two lists, or a path that
\* contains '/reset-password' or '/forgot-password'
OnAllowList(path) ==
    \/ \E i \in 1..Len(publicUserAuthenticatedPaths) : publicUserAuthenticatedPaths[i] = path
    \/ \E i \in 1..Len(publicUnauthenticatedPaths) : publicUnauthenticatedPaths[i] = path
    \/ Includes(path, ResetPasswordPart)
    \/ Includes(path, ForgotPasswordPart)

\* C8: while isLoading the guard pushes nothing; afterwards it pushes '/auth'
\* for no user on a path off the allow-list, '/dashboard' for an officer on a
\* '/public/...' path and '/public/home' for a public user on a
\* '/dashboard...' path.
C8_RouteGuard ==
    LET to == guardRedirect(user, isLoading, pathname)
    IN  /\ isLoading => to = NoPush /\ ~ENABLED RouteGuard
        /\ (~isLoading /\ user = null /\ ~OnAllowList(pathname))
           => to = Auth /\ ENABLED RouteGuard
        /\ (~isLoading /\ user # null /\ user.role = "officer"
            /\ StartsWith(pathname, PublicSlash))
           => to = Dashboard /\ ENABLED RouteGuard
        /\ (~isLoading /\ user # null /\ user.role = "public"
            /\ StartsWith(pathname, Dashboard))
           => to = PublicHome /\ ENABLED RouteGuard

C8_Witness ==
    /\ ~isLoading
    /\ user # null
    /\ user.role = "officer"
    /\ pathname = Dashboard
    /\ pushes # << >>
    /\ pushes[Len(pushes)] = [by |-> "guard", id |-> 0, to |-> Dashboard]

(***************************************************************************)
(* Properties of the error branches of the passes.                         *)
(***************************************************************************)
\* C19: a pass whose fetch failed with code '406' or a message containing
\* 'Not Acceptable' inserts nothing and returns a user with role 'public' and
\* the metadata username; one whose fetch failed with another error that is
\* not PGRST116 inserts nothing, writes null and returns null; a pass inserts
\* only after PGRST116, and the row it inserts has role 'public'.
C19_FetchErrorClasses ==
    \A p \in Started :
        /\ OutOf(p, "fetch") \cap {"406", "PGRST000"} # {}
           => /\ p \in Done
              /\ CallsOf(p, "insert") = {}
              /\ passes[p].result # null
              /\ passes[p].result.role = "public"
              /\ passes[p].result.username =
                    Or(passes[p].supabaseUser.user_metadata.username, "")
              /\ passes[p].writes = << passes[p].result >>
        /\ "500" \in OutOf(p, "fetch")
           => /\ p \in Done
              /\ CallsOf(p, "insert") = {}
              /\ passes[p].result = null
              /\ passes[p].writes = << null >>
        /\ CallsOf(p, "insert") # {} => OutOf(p, "fetch") = {"PGRST116"}
        /\ "ok" \in OutOf(p, "insert")
           => \E i \in RowsOf(passes[p].supabaseUser.id) : app_user[i].role = "public"

C19_Witness ==
    \E p \in Done :
        /\ OutOf(p, "fetch") = {"PGRST000"}
        /\ passes[p].calls = << [op |-> "fetch", out |-> "PGRST000"] >>
        /\ user = passes[p].result
        /\ user.role = "public"

\* C20: a pass whose refreshSession returned an error calls signOut, shows the
\* 'Session Expired' notification and returns null.
C20_SessionExpiredNotice ==
    \A p \in Done :
        ("refresh_token_not_found" \in OutOf(p, "refreshSession"))
        => /\ CallsOf(p, "signOut") # {}
           /\ passes[p].result = null
           /\ passes[p].toast = "Session Expired"

\* C18: the flag isProcessingPasswordUpdate is true for as long as less than
\* 2000 ms have passed since the last USER_UPDATED and no SIGNED_IN has
\* arrived since.
C18_FlagCoversWindow == window => isProcessingPasswordUpdate

\* C17: once loading is over, a user whose role is neither 'officer' nor
\* 'public' is sent from a '/dashboard...' path to '/public/home'.
C17_UnrecognizedAsPublic ==
    ( /\ ~isLoading
      /\ user # null
      /\ user.role \notin {"officer", "public"}
      /\ StartsWith(pathname, Dashboard) )
    => /\ guardRedirect(user, isLoading, pathname) = PublicHome
       /\ ENABLED RouteGuard

(***************************************************************************)
(* updateUserPassword after the mount.                                     *)
(***************************************************************************)
NextPassword ==
    \/ MountSession
    \/ MountFinally
    \/ MountError
    \/ MountSignedOut
    \/ \E p \in Passes : SelectReply(p)
    \/ \E p \in Passes : InsertReply(p)
    \/ \E p \in Passes : Resume(p)
    \/ \E p \in Passes : ServiceResume(p)
    \/ \E p \in Passes : FailResume(p)
    \/ UpdatePasswordCall
    \/ \E k \in 1..MaxOps : UpdatePasswordReauth(k)
    \/ \E k \in 1..MaxOps : UpdatePasswordChanged(k)
    \/ FlowTimerFires

SpecPassword == InitNotify /\ [][NextPassword]_vars

(***************************************************************************)
(* updateUserPassword next to passes started by any caller.                *)
(***************************************************************************)
NextFlow ==
    \/ CallHandleSession
    \/ \E p \in Passes : SelectReply(p)
    \/ \E p \in Passes : InsertReply(p)
    \/ \E p \in Passes : Resume(p)
    \/ \E p \in Passes : ServiceResume(p)
    \/ \E p \in Passes : FailResume(p)
    \/ UpdatePasswordCall
    \/ \E k \in 1..MaxOps : UpdatePasswordReauth(k)
    \/ \E k \in 1..MaxOps : UpdatePasswordChanged(k)
    \/ FlowTimerFires

SpecFlow == InitNotify /\ [][NextFlow]_vars

\* the pass has just returned from a branch that shows an error notification
\* outside a password update: a fetch error, a creation error, an exception
EndsInError(ps) ==
    /\ ps.pc = "done"
    /\ ps.calls # << >>
    /\ LET last == ps.calls[Len(ps.calls)]
       IN  \/ last.op \in {"fetch", "insert"} /\ last.out = "500"
           \/ last.op # "applicant" /\ last.out = "throw"

\* C11: a pass that ends in a fetch error, a creation error or an unexpected
\* error while isPasswordUpdateFlow is true shows no notification; one that
\* ends so while it is false shows one.
C11_QuietDuringFlow ==
    [][ \A p \in Passes :
           (passes[p].pc # "done" /\ EndsInError(passes'[p]))
           => (passes'[p].toast = "none") = isPasswordUpdateFlow ]_vars

\* C12: once every updateUserPassword has returned and no timer of it is
\* pending, isPasswordUpdateFlow is false.
C12_FlowFlagCleared ==
    ((\A k \in PwUpdates : pwUpdates[k].pc = "done") /\ flowTimers = 0)
    => ~isPasswordUpdateFlow

\* C13: with a non-empty old password updateUser is called only after
\* signInWithPassword returned no error; after an error of it updateUser is not
\* called and the result is false; the result is true only if updateUser
\* returned no error; without a user nothing is called and the result is false.
C13_ReauthBeforeUpdate ==
    \A k \in PwUpdates :
        LET rec == pwUpdates[k]
            UpdateCalls == { i \in 1..Len(rec.calls) : rec.calls[i].op = "updateUser" }
        IN  /\ (rec.oldPass # "" /\ UpdateCalls # {})
               => /\ UpdateCalls = {2}
                  /\ rec.calls[1] = [op |-> "signInWithPassword", out |-> "ok"]
            /\ (rec.calls # << >> /\ rec.calls[1] = [op |-> "signInWithPassword",
                                                    out |-> "error"])
               => UpdateCalls = {} /\ rec.pc = "done" /\ rec.result = FALSE
            /\ rec.result
               => /\ rec.pc = "done"
                  /\ rec.calls[Len(rec.calls)] = [op |-> "updateUser", out |-> "ok"]
            /\ ~rec.hadUser => rec.calls = << >> /\ rec.pc = "done" /\ ~rec.result

C13_Witness ==
    \E k \in PwUpdates :
        /\ pwUpdates[k].oldPass = "old"
        /\ pwUpdates[k].result
        /\ pwUpdates[k].calls = << [op |-> "signInWithPassword", out |-> "ok"],
                                   [op |-> "updateUser", out |-> "ok"] >>
        /\ flowTimers > 0
        /\ isPasswordUpdateFlow

(***************************************************************************)
(* signUp next to the mount and its pass.                                  *)
(***************************************************************************)
NextSignUp ==
    \/ MountSession
    \/ MountFinally
    \/ MountError
    \/ MountSignedOut
    \/ \E p \in Passes : SelectReply(p)
    \/ \E p \in Passes : InsertReply(p)
    \/ \E p \in Passes : Resume(p)
    \/ \E p \in Passes : ServiceResume(p)
    \/ \E p \in Passes : FailResume(p)
    \/ SignUpCall
    \/ \E k \in 1..MaxOps : SignUpCheckReply(k)
    \/ \E k \in 1..MaxOps : SignUpChecked(k)
    \/ \E k \in 1..MaxOps : SignUpAnswered(k)

SpecSignUp == Init /\ [][NextSignUp]_vars

AuthSignUpCalls(k) ==
    { i \in 1..Len(signUps[k].calls) : signUps[k].calls[i].op = "auth.signUp" }

\* C14: no step of signUp changes app_user; a signUp whose duplicate check
\* found a row with the email, or failed, does not call the identity
\* service's signUp; that call is made once, after the check returned no row,
\* with the username as metadata.
C14_SignUpChecksFirst ==
    /\ [](\A k \in SignUps :
            /\ (signUps[k].seen > 0 \/ signUps[k].check \in {"500", "throw"})
               => AuthSignUpCalls(k) = {}
            /\ AuthSignUpCalls(k) # {}
               => /\ AuthSignUpCalls(k) = {2}
                  /\ signUps[k].check = "ok"
                  /\ signUps[k].seen = 0
                  /\ signUps[k].calls[2].data = [username |-> signUps[k].username]
                  /\ signUps[k].calls[2].email = signUps[k].email)
    /\ [][signUps' # signUps => app_user' = app_user]_vars

C14_Witness ==
    /\ \E k \in SignUps :
          /\ signUps[k].toast = "Sign Up Successful"
          /\ AuthSignUpCalls(k) = {2}
          /\ \A i \in 1..Len(app_user) : app_user[i].email # signUps[k].email
    /\ app_user # << >>

(***************************************************************************)
(* updateUserProfile next to the mount and its pass.                       *)
(***************************************************************************)
NextProfile ==
    \/ MountSession
    \/ MountFinally
    \/ MountError
    \/ MountSignedOut
    \/ \E p \in Passes : SelectReply(p)
    \/ \E p \in Passes : InsertReply(p)
    \/ \E p \in Passes : Resume(p)
    \/ \E p \in Passes : ServiceResume(p)
    \/ \E p \in Passes : FailResume(p)
    \/ UpdateProfileCall
    \/ \E k \in 1..MaxOps : UpdateProfileReply(k)
    \/ \E k \in 1..MaxOps : UpdateProfileSession(k)
    \/ \E k \in 1..MaxOps : UpdateProfileSessionThrows(k)

\* table 'profile' holds a row of the first identity, or none
InitProfile ==
    InitState(InitRowChoices("u1"),
              { [u \in Identities |-> NULL],
                [u \in Identities |-> IF u = "u1" THEN "old" ELSE NULL] })

SpecProfile == InitProfile /\ [][NextProfile]_vars

\* C15: updateUserProfile returns true exactly when the update succeeded; a
\* failed update or a call without a user starts no pass; after a successful
\* update that changed a row, the pass started on the identity's session,
\* none of whose calls failed, publishes a user with the updated username.
C15_UpdatedUsernamePublished ==
    \A k \in ProfileUpdates :
        LET rec == profileUpdates[k]
        IN  rec.pc = "done" =>
              /\ rec.result = (rec.out = "ok")
              /\ ~rec.result => rec.pass = 0
              /\ (rec.result /\ rec.matched = 1 /\ rec.arg # null
                  /\ passes[rec.pass].pc = "done" /\ Unfailed(rec.pass))
                 => /\ passes[rec.pass].result # null
                    /\ passes[rec.pass].result.username = rec.username
                    /\ user # null
                    /\ user.username = rec.username

(***************************************************************************)
(* refreshUser next to the mount and its pass.                             *)
(***************************************************************************)
NextRefresh ==
    \/ MountSession
    \/ MountFinally
    \/ MountError
    \/ MountSignedOut
    \/ \E p \in Passes : SelectReply(p)
    \/ \E p \in Passes : InsertReply(p)
    \/ \E p \in Passes : Resume(p)
    \/ \E p \in Passes : ServiceResume(p)
    \/ \E p \in Passes : FailResume(p)
    \/ RefreshUserCall
    \/ \E k \in 1..MaxOps : RefreshUserSession(k)
    \/ \E k \in 1..MaxOps : RefreshUserRefreshed(k)
    \/ \E k \in 1..MaxOps : RefreshUserSignedOut(k)
    \/ \E k \in 1..MaxOps : RefreshUserReturns(k)

SpecRefresh == Init /\ [][NextRefresh]_vars

\* C16: a refreshUser that has returned ran one pass on the session getSession
\* gave it; or, getSession having failed and the explicit refresh having
\* succeeded, ran its pass on a session (not on null), so that a published
\* identity with a row in app_user is still published; or, the refresh having
\* failed, signed out and published null without a pass.
C16_RefreshUserReconciles ==
    \A k \in Refreshes :
        LET rec == refreshes[k]
        IN  rec.pc = "done" =>
              /\ rec.getSession = "ok"
                 => rec.pass # 0 /\ rec.arg = rec.session /\ rec.writes = 0
              /\ rec.refreshSession = "error"
                 => rec.pass = 0 /\ rec.signOut # "none" /\ rec.writes = 1
              /\ rec.refreshSession = "ok"
                 => /\ rec.pass # 0
                    /\ (rec.before # null /\ RowsOf(rec.before.id) # {}
                        /\ Unfailed(rec.pass) /\ initial.pc = "done")
                       => rec.arg # null /\ user # null

(***************************************************************************)
(* Properties of the writes of the published user.                         *)
(***************************************************************************)
\* the passes that return at this step
Returning == { p \in Passes : passes[p].pc # "done" /\ passes'[p].pc = "done" }

\* C21: the published user is last-write-wins with no ordering token: a pass
\* that returns publishes its value whatever passes started after it have
\* published, so a pass that started earlier and returns later overwrites the
\* value of the later pass (the reachable interleaving is C21_Witness).
C21_LastWriteWins ==
    [][\A p \in Returning : user' = passes'[p].result]_vars

\* both passes ran on the same session and no call of either failed; the
\* first found no row and inserted one, the second read the inserted row;
\* the published user is the value of the first, which differs
C21_Witness ==
    /\ passes[1].pc = "done" /\ passes[2].pc = "done"
    /\ passes[1].arg # null /\ passes[1].arg = passes[2].arg
    /\ Unfailed(1) /\ Unfailed(2)
    /\ passes[1].result # passes[2].result
    /\ user = passes[1].result

\* isAuthenticated: !!user
isAuthenticated == user # null

\* an AuthenticatedUser with every required field set, of identity su
CompleteUserOf(v, su) ==
    /\ DOMAIN v = {"id", "email", "username", "role", "voterId", "precinct",
                   "registrationStatus"}
    /\ v.id = su.id
    /\ v.email = su.email
    /\ ~Nullish(v.username)
    /\ ~Nullish(v.role)

\* C22: a pass calls setUser once, as its last step, and returns the value it
\* passed; the value is null or a complete AuthenticatedUser with the id and
\* email of the identity of the session the pass was called with;
\* isAuthenticated is true exactly when the published user is not null.
C22_OneWholeWrite ==
    /\ \A p \in Passes :
          /\ passes[p].pc \notin {"done", "raised"} => passes[p].writes = << >>
          /\ passes[p].pc \in {"done", "raised"}
             => /\ passes[p].pc = "done"
                /\ passes[p].writes = << passes[p].result >>
                /\ \/ passes[p].result = null
                   \/ /\ passes[p].arg # null
                      /\ CompleteUserOf(passes[p].result, passes[p].arg.user)
    /\ isAuthenticated = (user # null)
    /\ user # null => \E p \in Done : user = passes[p].result

\* one pass has published a complete user built after the applicant query,
\* the other has published null for a session whose call failed
C22_Witness ==
    \E p, q \in Done :
        /\ passes[p].result # null
        /\ CallsOf(p, "applicant") # {}
        /\ user = passes[p].result
        /\ passes[q].arg # null
        /\ passes[q].result = null
        /\ passes[q].writes = << null >>

(***************************************************************************)
(* The notifications when no password is being updated: USER_UPDATED never *)
(* arrives, so every SIGNED_OUT is received outside a password-update      *)
(* window and sets the published user to null.                             *)
(***************************************************************************)
AuthStateChangeOutsideWindow ==
    \E event \in AuthChangeEvents \ {"USER_UPDATED"} :
        \E session \in SessionsOfEvent(event) :
            /\ (event = "INITIAL_SESSION") = (notified = 0)
            /\ Notify(event, session)

NextSignOut ==
    \/ AuthStateChangeOutsideWindow
    \/ DebounceFires
    \/ Tick
    \/ \E p \in Passes : SelectReply(p)
    \/ \E p \in Passes : InsertReply(p)
    \/ \E p \in Passes : Resume(p)
    \/ \E p \in Passes : ServiceResume(p)

SpecSignOut == InitNotify /\ [][NextSignOut]_vars

\* C23: as long as SIGNED_OUT, received outside a password-update window, is
\* the last notification received, the published user is null: neither the
\* debounce timer that was pending nor a pass that was in flight when it
\* arrived publishes a user.
C23_SignOutDurable ==
    (burst.event = "SIGNED_OUT" /\ ~isProcessingPasswordUpdate /\ pwTimers = {})
    => user = null

(***************************************************************************)
(* The mount effect and its pass alone.  Every promise is settled in the   *)
(* end: a step that can be taken is eventually taken.                      *)
(***************************************************************************)
NextMount ==
    \/ MountSession
    \/ MountFinally
    \/ MountError
    \/ MountSignedOut
    \/ \E p \in Passes : SelectReply(p)
    \/ \E p \in Passes : InsertReply(p)
    \/ \E p \in Passes : Resume(p)
    \/ \E p \in Passes : ServiceResume(p)
    \/ \E p \in Passes : FailResume(p)

SpecMount == Init /\ [][NextMount]_vars /\ WF_vars(NextMount)

\* C24: after the mount isLoading eventually becomes false, whatever the
\* initial getSession and the first pass come to.
C24_LoadingEnds == <>(isLoading = FALSE)

(***************************************************************************)
(* The notifications, the debounce and the cleanup of the effect.          *)
(***************************************************************************)
NextTeardown ==
    \/ AuthStateChangeOutsideWindow
    \/ DebounceFires
    \/ Teardown
    \/ Tick
    \/ \E p \in Passes : SelectReply(p)
    \/ \E p \in Passes : InsertReply(p)
    \/ \E p \in Passes : Resume(p)
    \/ \E p \in Passes : ServiceResume(p)

SpecTeardown == InitNotify /\ [][NextTeardown]_vars

\* the passes that start at this step
Starting == { p \in Passes : passes[p].pc = "idle" /\ passes'[p].pc # "idle" }

\* C25: once the cleanup has run no debounce timer is pending, and no step
\* after it delivers a notification, sets a timer or starts a pass.
C25_TeardownStopsPasses ==
    /\ [](~subscribed => timeoutId = null)
    /\ [][~subscribed => /\ notified' = notified
                         /\ timeoutId' = null
                         /\ Starting = {}]_vars

\* the cleanup ran while a debounce timer was pending: the timer is gone, a
\* debounce delay has passed since the notification that set it, and the
\* one pass that timer would have started was not started
C25_Witness ==
    /\ ~subscribed
    /\ burst.n > 0 /\ burst.debounced /\ burst.last # null
    /\ burst.starts = << >>
    /\ sinceLast >= DebounceTicks
    /\ \A p \in Passes : passes[p].pc = "idle"

====
